---- MODULE Spec2Model ----
(***************************************************************************)
(* A model of contrib/scrape-ec2-prices.py: the EC2 price scraper          *)
(* (scrape_ec2_pricing), the catalog merger/writer (update_pricing_file)   *)
(* and the deterministic sorter (sort_nested_dict with the natural sort    *)
(* key sort_key_by_numeric_other).                                         *)
(*                                                                         *)
(* Representation.                                                         *)
(*  - A Python str is a TLA+ string; its characters are read with SubSeq   *)
(*    and ordered by their code points (Ord).                              *)
(*  - A Python dict (dict, OrderedDict, defaultdict: all keep insertion    *)
(*    order) is a node [isdict |-> TRUE, items |-> <<[k, v], ...>>, val]   *)
(*    whose items are in insertion order; any other JSON value is a leaf   *)
(*    node [isdict |-> FALSE, items |-> <<>>, val |-> n].  Dict equality   *)
(*    (==) is DictEq, which ignores the insertion order as Python does.    *)
(*  - A float is the integer number of 1/Scale units it holds.             *)
(***************************************************************************)
EXTENDS Integers, Sequences, FiniteSets, TLC

VARIABLES
    \* sorter: the mapping handed to sort_nested_dict, the same mapping built
    \* in another insertion order, the sorter's results and its position
    sx, sy, s1, s2, sy1, spc,
    \* scrape_ec2_pricing: its position, the index of the next legacy URL and of
    \* the next (OS, region) pair, and its locals result, res and instances
    pc, url_i, pair_i, result, res, instances,
    \* history of scrape_ec2_pricing: the (OS, region) pairs requested and the
    \* status of each response, the (size, region) cells for which a legacy
    \* entry with price n/a was processed, and the last other price that a
    \* legacy entry carried for each cell
    requests, statuses, legacy_na, legacy_priced,
    \* main: where it stands (before scrape_ec2_pricing or before
    \* update_pricing_file) and its local pricing_data; update_pricing_file:
    \* the JSON text of the catalog file, the clock that time.time() reads, and
    \* the run just made: its argument, what it read, the merged data it
    \* compared and whether it wrote the file
    mpc, main_pricing_data, file, clock, last

sortVars == <<sx, sy, s1, s2, sy1, spc>>

scrapeVars == <<pc, url_i, pair_i, result, res, instances,
                requests, statuses, legacy_na, legacy_priced>>

updateVars == <<mpc, main_pricing_data, file, clock, last>>

vars == <<sortVars, scrapeVars, updateVars>>

(***************************************************************************)
(* Bounds of the model.                                                    *)
(***************************************************************************)
\* longest flat mapping handed to the sorter
MaxKeys == 4
\* longest inner mapping of a nested sorter input
MaxInner == 2
\* number of regions of EC2_REGIONS the scraper walks
NumRegions == 2
\* most size entries in one legacy response
MaxEntries == 2
\* most entries in the prices array of one per-region response
MaxPrices == 1
\* decimal places a float keeps
FracDigits == 2
\* last second the clock reaches
MaxTime == 2

(***************************************************************************)
(* Characters and strings.                                                 *)
(***************************************************************************)
\* the printable ASCII characters in code point order, as (first code point,
\* characters) segments; the double quote (34) and the backquote (96) cannot
\* be written in a string of this language and are left out
CharSegments == <<[first |-> 32, chars |-> " !"],
                  [first |-> 35, chars |-> "#$%&'()*+,-./0123456789:;<=>?@ABCDEFGHIJKLMNOPQRSTUVWXYZ[\\]^_"],
                  [first |-> 97, chars |-> "abcdefghijklmnopqrstuvwxyz{|}~"]>>

CharAt(s, i) == SubSeq(s, i, i)

\* ord(c): the code point of each character
OrdTable ==
    LET pairs == UNION {{<<CharAt(CharSegments[g].chars, i), CharSegments[g].first + i - 1>> :
                           i \in 1..Len(CharSegments[g].chars)} : g \in 1..Len(CharSegments)}
    IN [c \in {p[1] : p \in pairs} |-> (CHOOSE p \in pairs : p[1] = c)[2]]

Ord(c) == OrdTable[c]

IsDigit(c) == Ord(c) >= 48 /\ Ord(c) <= 57

IsUpper(c) == Ord(c) >= 65 /\ Ord(c) <= 90

IsLower(c) == Ord(c) >= 97 /\ Ord(c) <= 122

\* Python's str < str: by code point, a proper prefix is smaller
RECURSIVE StrLessFrom(_, _, _)
StrLessFrom(s, t, i) ==
    IF i > Len(t) THEN FALSE
    ELSE IF i > Len(s) THEN TRUE
    ELSE IF Ord(CharAt(s, i)) < Ord(CharAt(t, i)) THEN TRUE
    ELSE IF Ord(CharAt(s, i)) > Ord(CharAt(t, i)) THEN FALSE
    ELSE StrLessFrom(s, t, i + 1)

StrLess(s, t) == StrLessFrom(s, t, 1)

\* int(s) of a run of decimal digits
RECURSIVE IntOfDigits(_)
IntOfDigits(s) ==
    IF Len(s) = 0 THEN 0
    ELSE 10 * IntOfDigits(SubSeq(s, 1, Len(s) - 1)) + (Ord(CharAt(s, Len(s))) - 48)

\* str(n) of a non-negative int
RECURSIVE StrOfNat(_)
StrOfNat(n) ==
    IF n < 10 THEN CharAt("0123456789", n + 1)
    ELSE StrOfNat(n \div 10) \o CharAt("0123456789", (n % 10) + 1)

\* chr(n)
Chr(n) == CHOOSE c \in DOMAIN OrdTable : OrdTable[c] = n

\* str.lower()
RECURSIVE Lower(_)
Lower(s) ==
    IF Len(s) = 0 THEN ""
    ELSE LET c == CharAt(s, 1)
         IN (IF IsUpper(c) THEN Chr(Ord(c) + 32) ELSE c) \o Lower(SubSeq(s, 2, Len(s)))

\* re.match(r'.*?<suffix>$', s) for a literal suffix
EndsWith(s, suffix) ==
    /\ Len(s) >= Len(suffix)
    /\ SubSeq(s, Len(s) - Len(suffix) + 1, Len(s)) = suffix

\* one unit of a float is 1/Scale
Scale == 10 ^ FracDigits

\* float(s) of a decimal numeral, in units of 1/Scale
FloatOfStr(s) ==
    LET dots == {i \in 1..Len(s) : CharAt(s, i) = "."}
        dot  == IF dots = {} THEN Len(s) + 1 ELSE CHOOSE i \in dots : \A j \in dots : i <= j
        frac == SubSeq(s, dot + 1, Len(s))
        kept == IF Len(frac) > FracDigits THEN FracDigits ELSE Len(frac)
    IN IntOfDigits(SubSeq(s, 1, dot - 1)) * Scale
       + IntOfDigits(SubSeq(frac, 1, kept)) * (10 ^ (FracDigits - kept))

\* Python values that are a str or an int
PyStr(s) == [t |-> "str", s |-> s, n |-> 0]

PyInt(n) == [t |-> "int", s |-> "", n |-> n]

\* bool(v)
Truthy(v) == IF v.t = "str" THEN v.s # "" ELSE v.n # 0

\* float(v)
FloatOf(v) == IF v.t = "str" THEN FloatOfStr(v.s) ELSE v.n * Scale

(***************************************************************************)
(* Program constants.                                                      *)
(***************************************************************************)
LINUX_PRICING_URLS == <<"https://aws.amazon.com/ec2/pricing/json/linux-od.json",
                        "https://a0.awsstatic.com/pricing/1/ec2/previous-generation/linux-od.min.js">>

ALL_EC2_REGIONS == <<"us-east-1", "us-east-2", "us-west-1", "us-west-2", "us-gov-west-1",
                     "eu-west-1", "eu-west-2", "eu-west-3", "eu-north-1", "eu-central-1",
                     "ca-central-1", "ap-southeast-1", "ap-southeast-2", "ap-northeast-1",
                     "ap-northeast-2", "ap-south-1", "sa-east-1", "cn-north-1">>

\* the regions walked: the first NumRegions of the list
EC2_REGIONS == SubSeq(ALL_EC2_REGIONS, 1, NumRegions)

\* the OS identifiers of the per-region API, in the order they are walked
OS_LIST == <<"linux", "windows-std">>

\* os_map
os_map(os) == IF os = "linux" THEN "ec2_linux" ELSE "ec2_windows"

\* os_map.values()
OS_FAMILIES == [i \in 1..Len(OS_LIST) |-> os_map(OS_LIST[i])]

INSTANCE_SIZES == <<"micro", "small", "medium", "large", "xlarge", "x-large", "extra-large">>

\* list.index(x): position of the first occurrence, counted from 0
IndexOf(list, x) == (CHOOSE i \in 1..Len(list) :
                        list[i] = x /\ \A j \in 1..(i - 1) : list[j] # x) - 1

InList(list, x) == \E i \in 1..Len(list) : list[i] = x

(***************************************************************************)
(* Nested values.                                                          *)
(***************************************************************************)
Leaf(n) == [isdict |-> FALSE, items |-> <<>>, val |-> n]

Dict(items) == [isdict |-> TRUE, items |-> items, val |-> 0]

EmptyDict == Dict(<<>>)

KeysOf(d) == {d.items[i].k : i \in 1..Len(d.items)}

KeySeq(d) == [i \in 1..Len(d.items) |-> d.items[i].k]

\* key in d
Has(d, key) == key \in KeysOf(d)

\* d[key], for a key of d
Get(d, key) == d.items[CHOOSE i \in 1..Len(d.items) : d.items[i].k = key].v

\* d.get(key, default)
GetOr(d, key, default) == IF Has(d, key) THEN Get(d, key) ELSE default

\* d[key] = value: an existing key keeps its position, a new key goes last
Put(d, key, value) ==
    IF Has(d, key)
    THEN LET i == CHOOSE j \in 1..Len(d.items) : d.items[j].k = key
         IN Dict([d.items EXCEPT ![i] = [k |-> key, v |-> value]])
    ELSE Dict(Append(d.items, [k |-> key, v |-> value]))

\* d.update(e) that merges e into d cell by cell instead of replacing the
\* values of d's keys
RECURSIVE DictUpdateDeep(_, _)
RECURSIVE UpdateDeepFrom(_, _, _)
DictUpdateDeep(d, e) == UpdateDeepFrom(d, e, 1)

UpdateDeepFrom(d, e, i) ==
    IF i > Len(e.items) THEN d
    ELSE LET key == e.items[i].k
             new == e.items[i].v
         IN UpdateDeepFrom(
                IF Has(d, key) /\ Get(d, key).isdict /\ new.isdict
                THEN Put(d, key, DictUpdateDeep(Get(d, key), new))
                ELSE Put(d, key, new),
                e, i + 1)

\* d.update(e)
RECURSIVE UpdateFrom(_, _, _)
UpdateFrom(d, e, i) ==
    IF i > Len(e.items) THEN d
    ELSE UpdateFrom(Put(d, e.items[i].k, e.items[i].v), e, i + 1)

DictUpdate(d, e) == UpdateFrom(d, e, 1)

\* DictEq that also compares the order of the keys
DictEqOrdered(a, b) == a = b

\* a == b of two JSON values: dicts compare as mappings, whatever their order
RECURSIVE DictEq(_, _)
DictEq(a, b) ==
    IF a.isdict # b.isdict THEN FALSE
    ELSE IF ~a.isdict THEN a.val = b.val
    ELSE /\ KeysOf(a) = KeysOf(b)
         /\ \A key \in KeysOf(a) : DictEq(Get(a, key), Get(b, key))

(***************************************************************************)
(* sort_key_by_numeric_other and sort_nested_dict.                         *)
(***************************************************************************)
\* the alternative of RE_NUMERIC_OTHER a character belongs to
CharClass(c) ==
    IF IsDigit(c) THEN "numeric"
    ELSE IF c = "-" \/ c = "_" \/ IsUpper(c) \/ IsLower(c) THEN "alpha"
    ELSE "other"

\* end of the maximal run of one class that starts at position i
RECURSIVE RunEnd(_, _, _)
RunEnd(s, i, class) ==
    IF i < Len(s) /\ CharClass(CharAt(s, i + 1)) = class
    THEN RunEnd(s, i + 1, class)
    ELSE i

\* RE_NUMERIC_OTHER.findall(s): one (numeric, alpha, other) group triple per
\* match, the groups that did not take part being the empty string
RECURSIVE FindAllFrom(_, _)
FindAllFrom(s, i) ==
    IF i > Len(s) THEN <<>>
    ELSE LET class == CharClass(CharAt(s, i))
             j     == RunEnd(s, i, class)
             run   == SubSeq(s, i, j)
         IN <<[numeric |-> IF class = "numeric" THEN run ELSE "",
               alpha   |-> IF class = "alpha" THEN run ELSE "",
               other   |-> IF class = "other" THEN run ELSE ""]>>
            \o FindAllFrom(s, j + 1)

RE_NUMERIC_OTHER_findall(s) == FindAllFrom(s, 1)

\* KeyItem without int(): the digits of a run are compared as characters
KeyItemLexical(m) ==
    LET alpha == IF InList(INSTANCE_SIZES, m.alpha)
                 THEN StrOfNat(IndexOf(INSTANCE_SIZES, m.alpha))
                 ELSE m.alpha
    IN [numeric |-> -1, alpha |-> alpha \o m.numeric, other |-> m.other]

\* KeyItem without the INSTANCE_SIZES lookup: every letter run ranks as itself
KeyItemNoVocabulary(m) ==
    LET numeric == IF m.numeric # "" THEN IntOfDigits(m.numeric) ELSE -1
    IN [numeric |-> numeric, alpha |-> m.alpha, other |-> m.other]

\* one element of the sort key, from one match
KeyItem(m) ==
    LET numeric == IF m.numeric # "" THEN IntOfDigits(m.numeric) ELSE -1
        alpha   == IF InList(INSTANCE_SIZES, m.alpha)
                   THEN StrOfNat(IndexOf(INSTANCE_SIZES, m.alpha))
                   ELSE m.alpha
    IN [numeric |-> numeric, alpha |-> alpha, other |-> m.other]

\* the sort key of a (key, value) item: the tuple of its runs' elements
sort_key_by_numeric_other(key_value) ==
    LET ms == RE_NUMERIC_OTHER_findall(key_value.k)
    IN [i \in 1..Len(ms) |-> KeyItem(ms[i])]

\* tuple < tuple on (numeric, alpha, other)
ItemLess(a, b) ==
    \/ a.numeric < b.numeric
    \/ /\ a.numeric = b.numeric
       /\ \/ StrLess(a.alpha, b.alpha)
          \/ a.alpha = b.alpha /\ StrLess(a.other, b.other)

\* tuple < tuple on sort keys: the first differing element decides, a proper
\* prefix is smaller
RECURSIVE KeyLessFrom(_, _, _)
KeyLessFrom(a, b, i) ==
    IF i > Len(b) THEN FALSE
    ELSE IF i > Len(a) THEN TRUE
    ELSE IF ItemLess(a[i], b[i]) THEN TRUE
    ELSE IF ItemLess(b[i], a[i]) THEN FALSE
    ELSE KeyLessFrom(a, b, i + 1)

KeyLess(a, b) == KeyLessFrom(a, b, 1)

\* InsertSorted of a sort that is not stable: x goes in front of its equals
RECURSIVE InsertSortedUnstable(_, _)
InsertSortedUnstable(sorted, x) ==
    IF sorted = <<>> THEN <<x>>
    ELSE IF ~KeyLess(Head(sorted).key, x.key)
         THEN <<x>> \o sorted
         ELSE <<Head(sorted)>> \o InsertSortedUnstable(Tail(sorted), x)

\* insert x, an item with its sort key, into a sorted sequence behind every
\* element that is not greater than it (sorted() is stable)
RECURSIVE InsertSorted(_, _)
InsertSorted(sorted, x) ==
    IF sorted = <<>> THEN <<x>>
    ELSE IF KeyLess(x.key, Head(sorted).key)
         THEN <<x>> \o sorted
         ELSE <<Head(sorted)>> \o InsertSorted(Tail(sorted), x)

\* sorted(items, key=sort_key_by_numeric_other): the key of each item is
\* computed once, the items come out in ascending order of their keys
RECURSIVE SortedFrom(_, _, _)
SortedFrom(items, i, acc) ==
    IF i > Len(items) THEN acc
    ELSE SortedFrom(items, i + 1,
                    InsertSorted(acc, [key |-> sort_key_by_numeric_other(items[i]),
                                       item |-> items[i]]))

SortedItems(items) == SortedFrom(items, 1, <<>>)

\* the loop of sort_nested_dict over the sorted items, from the i-th on
RECURSIVE sort_nested_dict(_)
RECURSIVE SortedValuesFrom(_, _)
SortedValuesFrom(sorted, i) ==
    IF i > Len(sorted) THEN <<>>
    ELSE LET key == sorted[i].item.k
             value == sorted[i].item.v
         IN <<[k |-> key,
               v |-> IF value.isdict THEN sort_nested_dict(value) ELSE value]>>
            \o SortedValuesFrom(sorted, i + 1)

sort_nested_dict(value) == Dict(SortedValuesFrom(SortedItems(value.items), 1))

\* the sequences without repetition over set S, of length 0..n
RECURSIVE InjSeqs(_, _)
InjSeqs(S, n) ==
    IF n = 0 THEN {<<>>}
    ELSE LET shorter == InjSeqs(S, n - 1)
         IN shorter \cup
            UNION {{Append(q, e) : e \in S \ {q[i] : i \in 1..Len(q)}} : q \in shorter}

(***************************************************************************)
(* The three parts at rest: a specification that runs one part holds the   *)
(* others here.                                                            *)
(***************************************************************************)
\* the sorter at rest
SortIdle ==
    /\ sx = EmptyDict
    /\ sy = EmptyDict
    /\ s1 = EmptyDict
    /\ s2 = EmptyDict
    /\ sy1 = EmptyDict
    /\ spc = "idle"

\* the scraper at rest
ScrapeIdle ==
    /\ pc = "idle"
    /\ url_i = 1
    /\ pair_i = 1
    /\ result = EmptyDict
    /\ res = EmptyDict
    /\ instances = {}
    /\ requests = <<>>
    /\ statuses = <<>>
    /\ legacy_na = {}
    /\ legacy_priced = {}

\* update_pricing_file at rest
UpdateIdle ==
    /\ mpc = "idle"
    /\ main_pricing_data = EmptyDict
    /\ file = <<>>
    /\ clock = 0
    /\ last = [ran |-> FALSE]

(***************************************************************************)
(* scrape_ec2_pricing: the legacy endpoints.                               *)
(***************************************************************************)
\* bool(table.get(name, False)) is false: no such row, or an empty one
RowFalsy(table, name) == ~Has(table, name) \/ Len(Get(table, name).items) = 0

\* table[name][region] = value
PutCell(table, name, region, value) ==
    Put(table, name, Put(Get(table, name), region, value))

\* str(v)
StrOf(v) == IF v.t = "str" THEN v.s ELSE StrOfNat(v.n)

\* the price of a legacy size entry is the sentinel n/a
IsNotAvailable(price) == Lower(StrOf(price)) = "n/a"

\* LegacySizeEntry that stores an unavailable price as zero instead of
\* skipping the entry
LegacySizeEntryStoresNA(result0, region_name, size) ==
    LET linux0 == Get(result0, "ec2_linux")
        linux1 == IF RowFalsy(linux0, size.size)
                  THEN Put(linux0, size.size, EmptyDict)
                  ELSE linux0
        price  == size.USD
    IN Put(result0, "ec2_linux",
           PutCell(linux1, size.size, region_name,
                   Leaf(IF IsNotAvailable(price) THEN 0 ELSE FloatOf(price))))

\* the body of the loop over sizes, for one size entry of a region
LegacySizeEntry(result0, region_name, size) ==
    LET linux0 == Get(result0, "ec2_linux")
        linux1 == IF RowFalsy(linux0, size.size)
                  THEN Put(linux0, size.size, EmptyDict)
                  ELSE linux0
        price  == size.USD
    IN IF IsNotAvailable(price)
       THEN Put(result0, "ec2_linux", linux1)
       ELSE Put(result0, "ec2_linux",
                PutCell(linux1, size.size, region_name, Leaf(FloatOf(price))))

\* the loops over config.regions[].instanceTypes[].sizes[] of one decoded
\* response; entries are the size entries in the order the loops reach them,
\* each with the region it is listed under
RECURSIVE LegacyWalk(_, _, _)
LegacyWalk(result0, entries, i) ==
    IF i > Len(entries) THEN result0
    ELSE LegacyWalk(LegacySizeEntry(result0, entries[i].region, entries[i]), entries, i + 1)

\* how the URL's suffix says the body is to be decoded
UrlFormat(url) ==
    IF EndsWith(url, ".json") THEN "json"
    ELSE IF EndsWith(url, ".js") THEN "callback"
    ELSE "none"

\* the body decodes: a JSON document under a .json URL, a callback(...)
\* wrapper under a .js URL
Decodes(url, body) == body.format = UrlFormat(url)

LegacySizes == {"m1.small"}

LegacyPrices == {PyStr("N/A"), PyStr("n/a"), PyStr("0.05")}

\* the regions the legacy endpoints list
LegacyRegions == {"us-east-1", "us-east-2"}

LegacyEntries == [region : LegacyRegions, size : LegacySizes, USD : LegacyPrices]

\* the sequences over set S of length 0..n
RECURSIVE SeqsUpTo(_, _)
SeqsUpTo(S, n) ==
    IF n = 0 THEN {<<>>}
    ELSE LET shorter == SeqsUpTo(S, n - 1)
         IN shorter \cup {Append(q, e) : q \in shorter, e \in S}

LegacyBodies == [format : {"json", "callback"}, entries : SeqsUpTo(LegacyEntries, MaxEntries)]

\* history: the cells of the entries with price n/a
NotAvailableCells(entries) ==
    {<<entries[i].size, entries[i].region>> :
        i \in {j \in 1..Len(entries) : IsNotAvailable(entries[j].USD)}}

\* history: the last price other than n/a of each cell
RECURSIVE PricedAfter(_, _, _)
PricedAfter(priced, entries, i) ==
    IF i > Len(entries) THEN priced
    ELSE LET e == entries[i]
         IN IF IsNotAvailable(e.USD) THEN PricedAfter(priced, entries, i + 1)
            ELSE PricedAfter({c \in priced : c.size # e.size \/ c.region # e.region}
                               \cup {[size |-> e.size, region |-> e.region, USD |-> e.USD]},
                             entries, i + 1)

\* one iteration of the loop over LINUX_PRICING_URLS: fetch, decode, walk
LegacyFetch ==
    /\ pc = "legacy"
    /\ \E body \in LegacyBodies :
          IF ~Decodes(LINUX_PRICING_URLS[url_i], body)
          THEN /\ pc' = "error"
               /\ UNCHANGED <<url_i, result, legacy_na, legacy_priced>>
          ELSE /\ result' = LegacyWalk(result, body.entries, 1)
               /\ legacy_na' = legacy_na \cup NotAvailableCells(body.entries)
               /\ legacy_priced' = PricedAfter(legacy_priced, body.entries, 1)
               /\ url_i' = url_i + 1
               /\ pc' = IF url_i = Len(LINUX_PRICING_URLS) THEN "newapi" ELSE "legacy"
    /\ UNCHANGED <<pair_i, res, instances, requests, statuses>>
    /\ UNCHANGED <<sortVars, updateVars>>

(***************************************************************************)
(* scrape_ec2_pricing: the per-region API.                                 *)
(***************************************************************************)
\* the (OS, region) pairs in the order of the two loops
Pairs == [i \in 1..(Len(OS_LIST) * NumRegions) |->
            [os |-> OS_LIST[((i - 1) \div NumRegions) + 1],
             region |-> EC2_REGIONS[((i - 1) % NumRegions) + 1]]]

\* d.get(key, default) of an entry's attribute that is present (a singleton)
\* or absent (the empty set)
Attr(opt, default) == IF opt = {} THEN default ELSE CHOOSE v \in opt : TRUE

\* the body of the loop over data['prices'], for one entry
RECURSIVE PricesWalk(_, _, _)
PricesWalk(acc, prices, i) ==
    IF i > Len(prices) THEN acc
    ELSE LET entry == prices[i]
             instance_type == Attr(entry.instanceType, "")
             price == Attr(entry.USD, PyInt(0))
         IN PricesWalk([types |-> acc.types \cup {instance_type},
                        row   |-> Put(acc.row, instance_type, Leaf(price))],
                       prices, i + 1)

\* one iteration of the loop over EC2_REGIONS that looks at the body whatever
\* the status of the response is
RegionStepIgnoresStatus(res0, instances0, pair, response) ==
    LET family == os_map(pair.os)
        res1 == IF pair.region = EC2_REGIONS[1] THEN Put(res0, family, EmptyDict) ELSE res0
        res2 == Put(res1, family, Put(Get(res1, family), pair.region, EmptyDict))
    IN IF ~response.decodes
       THEN [raised |-> TRUE, res |-> res2, instances |-> instances0]
       ELSE LET walked == PricesWalk([types |-> instances0, row |-> EmptyDict],
                                     response.prices, 1)
            IN [raised |-> FALSE,
                res |-> Put(res2, family, Put(Get(res2, family), pair.region, walked.row)),
                instances |-> walked.types]

\* one iteration of the loop over EC2_REGIONS, for one (OS, region) pair and
\* the response to its request; the first region of an OS also starts res[OS]
RegionStep(res0, instances0, pair, response) ==
    LET family == os_map(pair.os)
        res1 == IF pair.region = EC2_REGIONS[1] THEN Put(res0, family, EmptyDict) ELSE res0
        res2 == Put(res1, family, Put(Get(res1, family), pair.region, EmptyDict))
    IN IF response.status_code # 200
       THEN [raised |-> FALSE, res |-> res2, instances |-> instances0]
       ELSE IF ~response.decodes
       THEN [raised |-> TRUE, res |-> res2, instances |-> instances0]
       ELSE LET walked == PricesWalk([types |-> instances0, row |-> EmptyDict],
                                     response.prices, 1)
            IN [raised |-> FALSE,
                res |-> Put(res2, family, Put(Get(res2, family), pair.region, walked.row)),
                instances |-> walked.types]

ApiInstanceTypes == {"m1.small"}

ApiPrices == {PyStr("0.2")}

\* an entry of prices: its instance type attribute and its USD price, each
\* present or absent
ApiEntries == [instanceType : {{t} : t \in ApiInstanceTypes},
               USD : {{}} \cup {{u} : u \in ApiPrices}]

\* a response: its status, whether its body is JSON with a prices array, and
\* that array
ApiResponses == [status_code : {200, 503}, decodes : BOOLEAN,
                 prices : SeqsUpTo(ApiEntries, MaxPrices)]

\* the responses to the requests of the runs of main: the per-region API has
\* prices for the regions the legacy endpoints list, and answers 503 for the
\* other regions
MainResponses(pair) ==
    IF pair.region \in LegacyRegions THEN ApiResponses
    ELSE {r \in ApiResponses : r.status_code = 503}

NewApiFetch ==
    /\ pc = "newapi"
    /\ \E response \in ApiResponses :
          \E step \in {RegionStep(res, instances, Pairs[pair_i], response)} :
             /\ res' = step.res
             /\ instances' = step.instances
             /\ requests' = Append(requests, Pairs[pair_i])
             /\ statuses' = Append(statuses, response.status_code)
             /\ IF step.raised
                THEN pc' = "error" /\ pair_i' = pair_i
                ELSE /\ pair_i' = pair_i + 1
                     /\ pc' = IF pair_i = Len(Pairs) THEN "merge" ELSE "newapi"
    /\ UNCHANGED <<url_i, result, legacy_na, legacy_priced>>
    /\ UNCHANGED <<sortVars, updateVars>>

(***************************************************************************)
(* scrape_ec2_pricing: the merge of res into result, and the return.       *)
(***************************************************************************)
\* the price res holds for a cell is truthy
ApiPriced(res0, item, instance, region) ==
    /\ Has(Get(Get(res0, item), region), instance)
    /\ Truthy(Get(Get(Get(res0, item), region), instance).val)

\* MergeRegions that writes only into cells that result does not hold yet
RECURSIVE MergeRegionsKeepsLegacy(_, _, _, _, _)
MergeRegionsKeepsLegacy(table, res0, item, instance, i) ==
    IF i > Len(EC2_REGIONS) THEN table
    ELSE LET region == EC2_REGIONS[i]
         IN IF ApiPriced(res0, item, instance, region) /\ ~Has(Get(table, instance), region)
            THEN MergeRegionsKeepsLegacy(
                     PutCell(table, instance, region,
                             Leaf(FloatOf(Get(Get(Get(res0, item), region), instance).val))),
                     res0, item, instance, i + 1)
            ELSE MergeRegionsKeepsLegacy(table, res0, item, instance, i + 1)

\* the loop over EC2_REGIONS for one product family and instance
RECURSIVE MergeRegions(_, _, _, _, _)
MergeRegions(table, res0, item, instance, i) ==
    IF i > Len(EC2_REGIONS) THEN table
    ELSE LET region == EC2_REGIONS[i]
         IN IF ApiPriced(res0, item, instance, region)
            THEN MergeRegions(
                     PutCell(table, instance, region,
                             Leaf(FloatOf(Get(Get(Get(res0, item), region), instance).val))),
                     res0, item, instance, i + 1)
            ELSE MergeRegions(table, res0, item, instance, i + 1)

\* the loop over instances for one product family; order is the order in
\* which the set instances is iterated
RECURSIVE MergeInstances(_, _, _, _, _)
MergeInstances(table, res0, item, order, i) ==
    IF i > Len(order) THEN table
    ELSE LET table1 == IF RowFalsy(table, order[i])
                       THEN Put(table, order[i], EmptyDict)
                       ELSE table
         IN MergeInstances(MergeRegions(table1, res0, item, order[i], 1),
                           res0, item, order, i + 1)

\* the loop over os_map.values()
RECURSIVE MergeFamilies(_, _, _, _)
MergeFamilies(result0, res0, order, i) ==
    IF i > Len(OS_FAMILIES) THEN result0
    ELSE MergeFamilies(
             Put(result0, OS_FAMILIES[i],
                 MergeInstances(Get(result0, OS_FAMILIES[i]), res0, OS_FAMILIES[i], order, 1)),
             res0, order, i + 1)

\* the orders in which a set can be iterated
IterationOrders(S) == {q \in InjSeqs(S, Cardinality(S)) : Len(q) = Cardinality(S)}

MergeAndReturn ==
    /\ pc = "merge"
    /\ \E order \in IterationOrders(instances) :
          result' = MergeFamilies(result, res, order, 1)
    /\ pc' = "done"
    /\ UNCHANGED <<url_i, pair_i, res, instances, requests, statuses, legacy_na, legacy_priced>>
    /\ UNCHANGED <<sortVars, updateVars>>

\* result before the first request
EmptyResult == Dict([i \in 1..Len(OS_FAMILIES) |-> [k |-> OS_FAMILIES[i], v |-> EmptyDict]])

\* the state after the lines before the first request: result holds an empty
\* table for each product family
ScrapeInit ==
    /\ pc = "legacy"
    /\ url_i = 1
    /\ pair_i = 1
    /\ result = EmptyResult
    /\ res = EmptyDict
    /\ instances = {}
    /\ requests = <<>>
    /\ statuses = <<>>
    /\ legacy_na = {}
    /\ legacy_priced = {}
    /\ SortIdle
    /\ UpdateIdle

ScrapeNext == LegacyFetch \/ NewApiFetch \/ MergeAndReturn

SpecScrape == ScrapeInit /\ [][ScrapeNext]_vars

(***************************************************************************)
(* scrape_ec2_pricing as a whole: what a call returns.                     *)
(***************************************************************************)
\* the values of result after the loop over LINUX_PRICING_URLS from URL i on,
\* for the bodies that decode
RECURSIVE LegacyOutcomes(_, _)
LegacyOutcomes(results, i) ==
    IF i > Len(LINUX_PRICING_URLS) THEN results
    ELSE LegacyOutcomes(
             {LegacyWalk(r, body.entries, 1) :
                 r \in results,
                 body \in {b \in LegacyBodies : Decodes(LINUX_PRICING_URLS[i], b)}},
             i + 1)

\* the values of res and instances after the loops over the (OS, region)
\* pairs from pair i on, for the responses that raise nothing
RECURSIVE ApiOutcomes(_, _)
ApiOutcomes(walks, i) ==
    IF i > Len(Pairs) THEN walks
    ELSE ApiOutcomes(
             {[res |-> step.res, instances |-> step.instances] :
                 step \in {t \in {RegionStep(w.res, w.instances, Pairs[i], response) :
                                     w \in walks, response \in MainResponses(Pairs[i])} :
                              ~t.raised}},
             i + 1)

\* the results scrape_ec2_pricing returns
ScrapeReturns ==
    UNION {{MergeFamilies(legacy, api.res, order, 1) : order \in IterationOrders(api.instances)} :
              legacy \in LegacyOutcomes({EmptyResult}, 1),
              api \in ApiOutcomes({[res |-> EmptyDict, instances |-> {}]}, 1)}

(***************************************************************************)
(* update_pricing_file.                                                    *)
(***************************************************************************)
\* the tokens of JSON text: braces, the key of a member, a number
OpenBrace == [t |-> "{", s |-> "", n |-> 0]

CloseBrace == [t |-> "}", s |-> "", n |-> 0]

KeyToken(key) == [t |-> "key", s |-> key, n |-> 0]

NumberToken(n) == [t |-> "number", s |-> "", n |-> n]

\* json.dumps(value, indent=4) with the trailing whitespace of each line
\* stripped: the members of an object in the order of the dict's items
RECURSIVE JsonDumps(_)
RECURSIVE DumpItems(_, _)
JsonDumps(value) ==
    IF ~value.isdict THEN <<NumberToken(value.val)>>
    ELSE <<OpenBrace>> \o DumpItems(value.items, 1) \o <<CloseBrace>>

DumpItems(items, i) ==
    IF i > Len(items) THEN <<>>
    ELSE <<KeyToken(items[i].k)>> \o JsonDumps(items[i].v) \o DumpItems(items, i + 1)

\* json.loads(content): parse the value that starts at token i; the members of
\* an object go into a dict in the order of the text
RECURSIVE ParseValue(_, _)
RECURSIVE ParseMembers(_, _, _)
ParseValue(tokens, i) ==
    IF tokens[i].t = "number"
    THEN [value |-> Leaf(tokens[i].n), next |-> i + 1]
    ELSE ParseMembers(tokens, i + 1, EmptyDict)

ParseMembers(tokens, i, acc) ==
    IF tokens[i].t = "}"
    THEN [value |-> acc, next |-> i + 1]
    ELSE LET member == ParseValue(tokens, i + 1)
         IN ParseMembers(tokens, member.next, Put(acc, tokens[i].s, member.value))

JsonLoads(content) == ParseValue(content, 1).value

\* update_pricing_file without the early return: every run stamps and writes
update_always_writes(content, pricing_data, now) ==
    LET data0 == JsonLoads(content)
        data1 == Put(data0, "compute", DictUpdate(Get(data0, "compute"), pricing_data))
        data2 == Put(data1, "updated", Leaf(now))
    IN [wrote |-> TRUE, content |-> JsonDumps(sort_nested_dict(data2)),
        original_data |-> data0, data |-> data1]

\* update_pricing_file on a file that holds content, at time now: whether the
\* file is written, what it holds afterwards, and the locals original_data and
\* data as they are at the comparison
update_pricing_file(content, pricing_data, now) ==
    LET data0 == JsonLoads(content)
        original_data == data0
        data1 == Put(data0, "compute", DictUpdate(Get(data0, "compute"), pricing_data))
    IN IF DictEq(data1, original_data)
       THEN [wrote |-> FALSE, content |-> content,
             original_data |-> original_data, data |-> data1]
       ELSE LET data2 == Put(data1, "updated", Leaf(now))
                data3 == sort_nested_dict(data2)
            IN [wrote |-> TRUE, content |-> JsonDumps(data3),
                original_data |-> original_data, data |-> data1]

\* the prices a file holds
PriceSet == {FloatOfStr("0.05"), FloatOfStr("0.2")}

\* the rows a file can hold for an instance: a price for each region of a
\* subset of two regions, in either order
FileRows ==
    {Dict([i \in 1..Len(q) |-> [k |-> q[i], v |-> Leaf(f[i])]]) :
        q \in InjSeqs({"us-east-1", "us-east-2"}, 2), f \in [1..2 -> PriceSet]}

\* the price tables a file can hold: no row, or the row of one instance
FileTables == {EmptyDict} \cup {Dict(<<[k |-> "m1.small", v |-> row]>>) : row \in FileRows}

\* the prices of another provider, which the scraper does not touch
OtherProvider == Dict(<<[k |-> "2gb", v |-> Leaf(FloatOfStr("0.25"))],
                        [k |-> "1gb", v |-> Leaf(FloatOfStr("0.15"))]>>)

\* the catalogs the file can hold before the first run, in any key order: with
\* or without a table for ec2_windows, the compute families and the two top
\* level attributes in either order
InitialCatalogs ==
    LET computes ==
            UNION {{Dict(<<[k |-> "bluebox", v |-> OtherProvider], [k |-> "ec2_linux", v |-> t]>>),
                    Dict(<<[k |-> "ec2_linux", v |-> t], [k |-> "bluebox", v |-> OtherProvider]>>),
                    Dict(<<[k |-> "ec2_windows", v |-> EmptyDict], [k |-> "ec2_linux", v |-> t],
                           [k |-> "bluebox", v |-> OtherProvider]>>)} :
                   t \in FileTables}
    IN UNION {{Dict(<<[k |-> "updated", v |-> Leaf(u)], [k |-> "compute", v |-> c]>>),
               Dict(<<[k |-> "compute", v |-> c], [k |-> "updated", v |-> Leaf(u)]>>)} :
              c \in computes, u \in {0, 1}}

\* main is about to run on a file that holds a catalog
UpdateInit ==
    /\ mpc = "scrape"
    /\ main_pricing_data = EmptyDict
    /\ file \in {JsonDumps(c) : c \in InitialCatalogs}
    /\ clock = 1
    /\ last = [ran |-> FALSE]
    /\ SortIdle
    /\ ScrapeIdle

\* main, first statement: pricing_data = scrape_ec2_pricing(); a call that
\* raises ends main with the file as it is
MainScrape ==
    /\ mpc = "scrape"
    /\ main_pricing_data' \in ScrapeReturns
    /\ mpc' = "update"
    /\ last' = [ran |-> FALSE]
    /\ UNCHANGED <<file, clock>>
    /\ UNCHANGED <<sortVars, scrapeVars>>

\* main, second statement: update_pricing_file on the scraped data; the next
\* run of main starts after it
UpdateRun ==
    /\ mpc = "update"
    /\ \E run \in {update_pricing_file(file, main_pricing_data, clock)} :
          /\ file' = run.content
          /\ last' = [ran |-> TRUE, pricing_data |-> main_pricing_data, read |-> file,
                      original_data |-> run.original_data, data |-> run.data,
                      wrote |-> run.wrote, now |-> clock]
    /\ mpc' = "scrape"
    /\ UNCHANGED <<main_pricing_data, clock>>
    /\ UNCHANGED <<sortVars, scrapeVars>>

\* a second passes
Tick ==
    /\ clock < MaxTime
    /\ clock' = clock + 1
    /\ UNCHANGED <<mpc, main_pricing_data, file, last>>
    /\ UNCHANGED <<sortVars, scrapeVars>>

UpdateNext == MainScrape \/ UpdateRun \/ Tick

SpecUpdate == UpdateInit /\ [][UpdateNext]_vars

(***************************************************************************)
(* The sorter's inputs.                                                    *)
(***************************************************************************)
\* instance identifiers, legacy sizes and keys that differ in a leading zero
SortVocab == {"m5.large", "m5.xlarge", "m5.2xlarge", "m5.16xlarge", "m5.02xlarge",
              "small", "micro", "large", "x-large"}

InnerVocab == {"1", "01", "us-east-1", "us-east-2"}

OuterVocab == {"ec2_linux", "ec2_windows"}

\* the flat mapping with these keys, inserted in this order
FlatDict(keys) == Dict([i \in 1..Len(keys) |-> [k |-> keys[i], v |-> Leaf(Len(keys[i]))]])

InnerDicts == {FlatDict(q) : q \in InjSeqs(InnerVocab, MaxInner)}

NestedDicts ==
    UNION {{Dict([i \in 1..Len(q) |-> [k |-> q[i], v |-> f[i]]]) :
              f \in [1..Len(q) -> InnerDicts \cup {Leaf(7)}]} :
           q \in InjSeqs(OuterVocab, 2)}

SortInputs == {FlatDict(q) : q \in InjSeqs(SortVocab, MaxKeys)} \cup NestedDicts

(***************************************************************************)
(* The sorter applied: once, and again to its own result.                  *)
(***************************************************************************)
SortInit ==
    /\ sx \in SortInputs
    /\ sy = sx
    /\ s1 = EmptyDict
    /\ s2 = EmptyDict
    /\ sy1 = EmptyDict
    /\ spc = "input"
    /\ ScrapeIdle
    /\ UpdateIdle

SortOnce ==
    /\ spc = "input"
    /\ s1' = sort_nested_dict(sx)
    /\ spc' = "once"
    /\ UNCHANGED <<sx, sy, s2, sy1>>
    /\ UNCHANGED <<scrapeVars, updateVars>>

SortTwice ==
    /\ spc = "once"
    /\ s2' = sort_nested_dict(s1)
    /\ spc' = "twice"
    /\ UNCHANGED <<sx, sy, s1, sy1>>
    /\ UNCHANGED <<scrapeVars, updateVars>>

SortNext == SortOnce \/ SortTwice

SpecSort == SortInit /\ [][SortNext]_vars

(***************************************************************************)
(* The sorter applied to one mapping built in two insertion orders.        *)
(***************************************************************************)
\* longest flat mapping that is built in two insertion orders
MaxCanonKeys == 3

CanonVocab == {"m5.large", "m5.2xlarge", "m5.16xlarge", "m5.02xlarge", "micro", "small"}

CanonInputs == {FlatDict(q) : q \in InjSeqs(CanonVocab, MaxCanonKeys)} \cup NestedDicts

\* the permutations of 1..n
Perms(n) == {p \in [1..n -> 1..n] : \A i, j \in 1..n : p[i] = p[j] => i = j}

\* the mappings that hold what x holds, at every level, in any insertion order
RECURSIVE Reorders(_)
Reorders(x) ==
    IF ~x.isdict THEN {x}
    ELSE LET n == Len(x.items)
             choices == [i \in 1..n |-> Reorders(x.items[i].v)]
             picks == {f \in [1..n -> UNION {choices[i] : i \in 1..n}] :
                         \A i \in 1..n : f[i] \in choices[i]}
         IN {Dict([j \in 1..n |-> [k |-> x.items[p[j]].k, v |-> f[p[j]]]]) :
               p \in Perms(n), f \in picks}

CanonInit ==
    /\ sx \in CanonInputs
    /\ sy \in Reorders(sx)
    /\ s1 = EmptyDict
    /\ s2 = EmptyDict
    /\ sy1 = EmptyDict
    /\ spc = "input"
    /\ ScrapeIdle
    /\ UpdateIdle

SortReordered ==
    /\ spc = "once"
    /\ sy1' = sort_nested_dict(sy)
    /\ spc' = "done"
    /\ UNCHANGED <<sx, sy, s1, s2>>
    /\ UNCHANGED <<scrapeVars, updateVars>>

CanonNext == SortOnce \/ SortReordered

SpecCanon == CanonInit /\ [][CanonNext]_vars

(***************************************************************************)
(* Properties of the sorter.                                               *)
(***************************************************************************)
\* the dicts of a nested value: itself and the dicts below it
RECURSIVE DictsIn(_)
DictsIn(x) ==
    IF ~x.isdict THEN {}
    ELSE {x} \cup UNION {DictsIn(x.items[i].v) : i \in 1..Len(x.items)}

\* two distinct keys of d have the same natural sort key
HasTie(d) ==
    \E i, j \in 1..Len(d.items) :
        /\ i # j
        /\ sort_key_by_numeric_other(d.items[i]) = sort_key_by_numeric_other(d.items[j])

\* C5: sorting a sorted mapping changes nothing:
\* sort_nested_dict(sort_nested_dict(x)) is sort_nested_dict(x), with the same
\* order of keys at every nesting level, also when distinct keys have the same
\* natural sort key.
C5_SortIdempotent == spc = "twice" => s2 = s1

\* C5 witness: a mapping with two keys of equal sort key, which the first
\* sort reordered, has been sorted twice.
C5_Witness ==
    /\ spc = "twice"
    /\ \E d \in DictsIn(sx) : HasTie(d)
    /\ s1 # sx
    /\ KeySeq(s1) # KeySeq(sx)

\* the runs of keys a and b agree up to a position where both have a digit
\* run, and a's run has the smaller integer value
NumericallyBefore(a, b) ==
    LET ra == RE_NUMERIC_OTHER_findall(a)
        rb == RE_NUMERIC_OTHER_findall(b)
    IN \E p \in 1..Len(ra) :
          /\ p <= Len(rb)
          /\ \A q \in 1..(p - 1) : ra[q] = rb[q]
          /\ ra[p].numeric # "" /\ rb[p].numeric # ""
          /\ IntOfDigits(ra[p].numeric) < IntOfDigits(rb[p].numeric)

M5Keys == {"m5.large", "m5.xlarge", "m5.2xlarge", "m5.16xlarge"}

\* C6: the keys m5.large, m5.xlarge, m5.2xlarge, m5.16xlarge come out in this
\* order from any insertion order, and in every sorted mapping, at every level,
\* two keys whose runs agree up to a position where both have a digit run are
\* in the order of the integer values of that run.
C6_NaturalKeyOrdering ==
    spc # "input" =>
        /\ KeysOf(sx) = M5Keys =>
               KeySeq(s1) = <<"m5.large", "m5.xlarge", "m5.2xlarge", "m5.16xlarge">>
        /\ \A d \in DictsIn(s1) : \A i, j \in 1..Len(d.items) :
               i < j => ~NumericallyBefore(d.items[j].k, d.items[i].k)

\* C6 witness: the four keys, inserted in the reverse order, have been sorted.
C6_Witness ==
    /\ spc = "once"
    /\ KeySeq(sx) = <<"m5.16xlarge", "m5.2xlarge", "m5.xlarge", "m5.large">>
    /\ KeySeq(s1) = <<"m5.large", "m5.xlarge", "m5.2xlarge", "m5.16xlarge">>

\* the runs of keys a and b first differ at a position where both have a
\* letter run that is a word of INSTANCE_SIZES, and a's word comes first there
VocabularyBefore(a, b) ==
    LET ra == RE_NUMERIC_OTHER_findall(a)
        rb == RE_NUMERIC_OTHER_findall(b)
    IN \E p \in 1..Len(ra) :
          /\ p <= Len(rb)
          /\ \A q \in 1..(p - 1) : ra[q] = rb[q]
          /\ ra[p] # rb[p]
          /\ InList(INSTANCE_SIZES, ra[p].alpha) /\ InList(INSTANCE_SIZES, rb[p].alpha)
          /\ IndexOf(INSTANCE_SIZES, ra[p].alpha) < IndexOf(INSTANCE_SIZES, rb[p].alpha)

\* C7: the keys small, micro, large come out as micro, small, large, and in
\* every sorted mapping, at every level, two keys whose runs first differ at
\* letter runs that are both words of INSTANCE_SIZES are in the order of the
\* words in that list.
C7_SizeVocabularyRanking ==
    spc # "input" =>
        /\ KeysOf(sx) = {"small", "micro", "large"} =>
               KeySeq(s1) = <<"micro", "small", "large">>
        /\ \A d \in DictsIn(s1) : \A i, j \in 1..Len(d.items) :
               i < j => ~VocabularyBefore(d.items[j].k, d.items[i].k)

\* C7 witness: small, micro, large, inserted in that order, have been sorted.
C7_Witness ==
    /\ spc = "once"
    /\ KeySeq(sx) = <<"small", "micro", "large">>
    /\ KeySeq(s1) = <<"micro", "small", "large">>

\* C10 as claimed: two mappings that hold the same keys and values at every
\* level come out of sort_nested_dict with the same sequence of keys at every
\* level, whatever their insertion orders.
C10_CanonicalOrdering == spc = "done" => sy1 = s1

(***************************************************************************)
(* Properties of scrape_ec2_pricing.                                       *)
(***************************************************************************)
RegionSet == {EC2_REGIONS[i] : i \in 1..Len(EC2_REGIONS)} \cup LegacyRegions

FamilySet == {OS_FAMILIES[i] : i \in 1..Len(OS_FAMILIES)}

\* every instance identifier a response can name
InstanceSet == LegacySizes \cup ApiInstanceTypes \cup {""}

\* result holds a price for the cell
ResultHas(item, instance, region) ==
    /\ Has(result, item)
    /\ Has(Get(result, item), instance)
    /\ Has(Get(Get(result, item), instance), region)

ResultCell(item, instance, region) == Get(Get(Get(result, item), instance), region).val

\* the legacy endpoints produced a price for the cell: an entry with a price
\* other than n/a was processed (legacy entries feed ec2_linux only)
LegacyPriced(item, instance, region) ==
    /\ item = "ec2_linux"
    /\ \E c \in legacy_priced : c.size = instance /\ c.region = region

LegacyValue(instance, region) ==
    FloatOf((CHOOSE c \in legacy_priced : c.size = instance /\ c.region = region).USD)

\* the per-region API produced a price for the cell
ApiProduced(item, instance, region) ==
    /\ Has(res, item)
    /\ Has(Get(res, item), region)
    /\ Has(Get(Get(res, item), region), instance)

ApiValue(item, instance, region) ==
    FloatOf(Get(Get(Get(res, item), region), instance).val)

\* C1 as claimed: a cell for which both the legacy endpoints and the
\* per-region API produce a price holds the legacy-derived value in the
\* returned result.
C1_LegacyPrecedence ==
    pc = "done" =>
        \A item \in FamilySet, instance \in InstanceSet, region \in RegionSet :
            LegacyPriced(item, instance, region) /\ ApiProduced(item, instance, region) =>
                /\ ResultHas(item, instance, region)
                /\ ResultCell(item, instance, region) = LegacyValue(instance, region)

\* C1 amended: in the returned result a cell holds the per-region API's price,
\* as a float, whenever that price is truthy, also when the legacy endpoints
\* produced a price for the cell; it holds the legacy-derived value only when
\* the per-region API produced no price or a falsy one for it; a cell neither
\* source priced is absent.
C1_ApiOverwritesLegacy ==
    pc = "done" =>
        \A item \in FamilySet, instance \in InstanceSet, region \in RegionSet :
            IF ApiProduced(item, instance, region) /\ ApiPriced(res, item, instance, region)
            THEN /\ ResultHas(item, instance, region)
                 /\ ResultCell(item, instance, region) = ApiValue(item, instance, region)
            ELSE IF LegacyPriced(item, instance, region)
            THEN /\ ResultHas(item, instance, region)
                 /\ ResultCell(item, instance, region) = LegacyValue(instance, region)
            ELSE ~ResultHas(item, instance, region)

\* C1 witness: the function returned, and a cell the legacy endpoints priced
\* holds the different, truthy price of the per-region API.
C1_Witness ==
    /\ pc = "done"
    /\ \E instance \in InstanceSet, region \in RegionSet :
          /\ LegacyPriced("ec2_linux", instance, region)
          /\ ApiProduced("ec2_linux", instance, region)
          /\ ApiPriced(res, "ec2_linux", instance, region)
          /\ ResultCell("ec2_linux", instance, region) = ApiValue("ec2_linux", instance, region)
          /\ ResultCell("ec2_linux", instance, region) # LegacyValue(instance, region)

\* C4 as claimed: the returned result has no entry for the cell of a legacy
\* entry whose price is n/a, whatever other responses are processed.
C4_NotAvailableAbsent ==
    pc = "done" =>
        \A cell \in legacy_na : ~ResultHas("ec2_linux", cell[1], cell[2])

\* C4 amended: a legacy entry whose price is n/a (in any case) stores nothing:
\* the cell of such an entry is in result only if another legacy entry carried
\* a price other than n/a for it, or, once the function returned, if the
\* per-region API gave a truthy price for it, and it then holds that price.
C4_NotAvailableStoresNothing ==
    \A cell \in legacy_na :
        ResultHas("ec2_linux", cell[1], cell[2]) =>
            \/ /\ LegacyPriced("ec2_linux", cell[1], cell[2])
               /\ ResultCell("ec2_linux", cell[1], cell[2]) = LegacyValue(cell[1], cell[2])
            \/ /\ pc = "done"
               /\ ApiProduced("ec2_linux", cell[1], cell[2])
               /\ ApiPriced(res, "ec2_linux", cell[1], cell[2])
               /\ ResultCell("ec2_linux", cell[1], cell[2])
                    = ApiValue("ec2_linux", cell[1], cell[2])

\* C4 witness: the function returned; an entry with price n/a was processed
\* for a cell that is absent from the result, beside a priced cell of the
\* same size.
C4_Witness ==
    /\ pc = "done"
    /\ \E cell \in legacy_na :
          /\ ~ResultHas("ec2_linux", cell[1], cell[2])
          /\ \E region \in RegionSet : ResultHas("ec2_linux", cell[1], region)

\* C8: the (OS, region) pairs are requested once each in the OS-then-region
\* order; a pair whose response is not 200 raises nothing, leaves res[OS][region]
\* empty, adds no instance type and no cell of the result, and the walk goes
\* on to the next pair and to the return.
C8_Non200Skipped ==
    /\ Len(statuses) = Len(requests)
    /\ Len(requests) <= Len(Pairs)
    /\ requests = SubSeq(Pairs, 1, Len(requests))
    /\ pc \in {"merge", "done"} => requests = Pairs
    /\ instances = UNION {KeysOf(Get(Get(res, os_map(requests[i].os)), requests[i].region)) :
                            i \in {j \in 1..Len(requests) : statuses[j] = 200}}
    /\ \A i \in 1..Len(requests) :
          statuses[i] # 200 =>
              /\ Get(Get(res, os_map(requests[i].os)), requests[i].region) = EmptyDict
              /\ ~(pc = "error" /\ i = Len(requests))
              /\ pair_i > i \/ pc \in {"merge", "done"}
              /\ \A instance \in InstanceSet :
                    ResultHas(os_map(requests[i].os), instance, requests[i].region) =>
                        LegacyPriced(os_map(requests[i].os), instance, requests[i].region)

\* C8 witness: the function returned after a pair answered with another
\* status than 200 and a later pair answered 200 with a price.
C8_Witness ==
    /\ pc = "done"
    /\ \E i, j \in 1..Len(requests) :
          /\ i < j
          /\ statuses[i] # 200
          /\ statuses[j] = 200
          /\ Get(Get(res, os_map(requests[j].os)), requests[j].region) # EmptyDict

(***************************************************************************)
(* Properties of update_pricing_file.                                      *)
(***************************************************************************)
\* the content of a JSON value, whatever the order of its keys: each leaf and
\* each object with the path of keys that leads to it
RECURSIVE Cells(_, _)
Cells(value, path) ==
    IF ~value.isdict
    THEN {[path |-> path, leaf |-> TRUE, val |-> value.val]}
    ELSE {[path |-> path, leaf |-> FALSE, val |-> 0]} \cup
         UNION {Cells(value.items[i].v, Append(path, value.items[i].k)) :
                   i \in 1..Len(value.items)}

\* the path lies in compute, in the table of one of the families
UnderFamily(path, families) ==
    /\ Len(path) >= 2
    /\ path[1] = "compute"
    /\ path[2] \in families

\* the content of the catalog with the scraped families laid over compute
OverlayCells(catalog, pricing_data) ==
    {c \in Cells(catalog, <<>>) : ~UnderFamily(c.path, KeysOf(pricing_data))} \cup
    UNION {Cells(Get(pricing_data, family), <<"compute", family>>) :
              family \in KeysOf(pricing_data)}

\* the content with the updated attribute set to now
StampedCells(cells, now) ==
    {c \in cells : c.path # <<"updated">>} \cup
    {[path |-> <<"updated">>, leaf |-> TRUE, val |-> now]}

\* the updated attribute of the catalog a text holds
UpdatedOf(content) == Get(JsonLoads(content), "updated").val

\* the last run merged content that differs from the content it read
LastRunDiffers ==
    OverlayCells(JsonLoads(last.read), last.pricing_data) # Cells(JsonLoads(last.read), <<>>)

\* the price cell the text holds for a region of m1.small in ec2_linux, if any
LinuxCell(content, region) ==
    {c \in Cells(JsonLoads(content), <<>>) :
        c.path = <<"compute", "ec2_linux", "m1.small", region>>}

\* C2: a run whose catalog, after the scraped families are laid over compute,
\* has the content of the catalog it read, does not write the file: the text
\* of the file, its updated attribute and its key order are what they were
C2_NoOpLeavesFile ==
    (last.ran /\ ~LastRunDiffers) =>
        /\ ~last.wrote
        /\ file = last.read
        /\ UpdatedOf(file) = UpdatedOf(last.read)

\* a run without a change on a file whose ec2_linux table holds the scraped
\* prices with its regions in another order than the scraped table
C2_Witness ==
    /\ last.ran
    /\ ~LastRunDiffers
    /\ ~last.wrote
    /\ Get(Get(JsonLoads(last.read), "compute"), "ec2_linux") # Get(last.pricing_data, "ec2_linux")
    /\ Len(Get(Get(last.pricing_data, "ec2_linux"), "m1.small").items) = 2
    /\ JsonDumps(sort_nested_dict(JsonLoads(last.read))) # last.read

\* C3: a run writes the file exactly when its merged content differs from
\* the content it read; then updated is the time of the run and the file
\* holds the merged content, the new cells included; otherwise the file and
\* its updated attribute are what they were
C3_WritesExactlyOnChange ==
    last.ran =>
        /\ last.wrote <=> LastRunDiffers
        /\ last.wrote =>
              /\ UpdatedOf(file) = last.now
              /\ Cells(JsonLoads(file), <<>>) =
                    StampedCells(OverlayCells(JsonLoads(last.read), last.pricing_data), last.now)
        /\ ~last.wrote => file = last.read
        /\ UpdatedOf(file) # UpdatedOf(last.read) => LastRunDiffers

\* a run that adds the price of a region to the row of m1.small, which held
\* the price of the other region, and stamps the file with a new time
C3_Witness ==
    /\ last.ran
    /\ last.wrote
    /\ LinuxCell(last.read, "us-east-1") # {}
    /\ LinuxCell(last.read, "us-east-2") = {}
    /\ LinuxCell(file, "us-east-1") = LinuxCell(last.read, "us-east-1")
    /\ LinuxCell(file, "us-east-2") # {}
    /\ UpdatedOf(file) = last.now
    /\ UpdatedOf(file) # UpdatedOf(last.read)

\* C9: after the overlay the compute entry of every scraped family is the
\* scraped table itself, every other compute entry and every other attribute
\* of the catalog is what was read, and a written file holds that content
C9_ShallowFamilyMerge ==
    last.ran =>
        LET read == JsonLoads(last.read)
            compute == Get(last.data, "compute")
        IN /\ KeysOf(compute) = KeysOf(Get(read, "compute")) \cup KeysOf(last.pricing_data)
           /\ \A family \in KeysOf(last.pricing_data) :
                 Get(compute, family) = Get(last.pricing_data, family)
           /\ \A family \in KeysOf(Get(read, "compute")) \ KeysOf(last.pricing_data) :
                 Get(compute, family) = Get(Get(read, "compute"), family)
           /\ KeysOf(last.data) = KeysOf(read)
           /\ \A key \in KeysOf(read) \ {"compute"} : Get(last.data, key) = Get(read, key)
           /\ last.wrote =>
                 \A family \in KeysOf(last.pricing_data) :
                    {c \in Cells(JsonLoads(file), <<>>) : UnderFamily(c.path, {family})} =
                        Cells(Get(last.pricing_data, family), <<"compute", family>>)

\* a run on a file that priced a region the scraped table does not price:
\* the cell is gone from the written file, the other provider's table is there
C9_Witness ==
    /\ last.ran
    /\ last.wrote
    /\ LinuxCell(last.read, "us-east-2") # {}
    /\ Has(Get(last.pricing_data, "ec2_linux"), "m1.small")
    /\ ~Has(Get(Get(last.pricing_data, "ec2_linux"), "m1.small"), "us-east-2")
    /\ LinuxCell(file, "us-east-2") = {}
    /\ LinuxCell(file, "us-east-1") # {}
    /\ Cells(Get(Get(JsonLoads(file), "compute"), "bluebox"), <<>>) = Cells(OtherProvider, <<>>)

====
